---- MODULE Spec2Model ----
(***************************************************************************)
(* LegisScan: the character-granularity diff of LegalSpellingCorrector     *)
(* (src/predictor.py), its consumer in src/main.py, and the line-          *)
(* granularity redline of EnhancedContractComparator.compare_texts.        *)
(*                                                                         *)
(* A Python str is a sequence of code points; positions are 0-based as in  *)
(* the source, so s[a:b] is Slice(s, a, b).                                *)
(***************************************************************************)
EXTENDS Integers, Sequences, FiniteSets, TLC

VARIABLES
    mode,        \* which entry point this run exercises:
                 \*   "align" | "predict" | "contract" | "merge" | "files" | "calls"
                 \*   | "serve" | "train"
    original,    \* compare_text's first argument
    corrected,   \* compare_text's second argument
    pc,          \* position of the caller
    alignment,   \* what _get_lcs_with_indices(original, corrected) returned
    result,      \* the dict returned by compare_text
    printed,     \* the "original -> corrected" lines main has printed
    text1,       \* compare_texts' first argument
    text2,       \* compare_texts' second argument
    report,      \* what compare_texts hands to its HTML template
    mergeInput,  \* _merge_differences' argument
    mergeOutput, \* what _merge_differences returned
    file1,       \* what is at compare_files' file1_path
    file2,       \* what is at compare_files' file2_path
    extracted,   \* what extract_text returned for the two paths
    calls,       \* the methods compare_files has called, in order
    written,     \* the report files written by save_comparison_result
    returned,    \* what compare_files returned
    frames,      \* the locals of every compare_text call in progress
    instance,    \* the attributes of the LegalSpellingCorrector the calls share
    request,     \* what request.get_json() does for a POST to /correct
    modelCalls,  \* the calls the /correct handler made on model, in order
    response,    \* what the /correct handler returned
    epochs,      \* Trainer.epochs
    epoch,       \* how many epochs Trainer.train has completed
    val_losses,  \* what evaluate() returned in each completed epoch
    best_val_loss,   \* Trainer.best_val_loss
    best_val_losses, \* best_val_loss at the end of each completed epoch
    best_model,  \* the epoch whose model is saved at save_dir/best_model, or 0
    last_model   \* the epoch whose model is saved at save_dir/last_model, or 0

predictVars == <<original, corrected, alignment, result, printed>>
contractVars == <<text1, text2, report>>
mergeVars == <<mergeInput, mergeOutput>>
filesVars == <<file1, file2, extracted, calls, written, returned>>

callVars == <<frames, instance>>
serveVars == <<request, modelCalls, response>>
trainVars == <<epochs, epoch, val_losses, best_val_loss, best_val_losses,
               best_model, last_model>>
mainVars == <<mode, pc, predictVars, contractVars, mergeVars, filesVars,
              serveVars, trainVars>>

vars == <<mainVars, callVars>>

----------------------------------------------------------------------------
\* Bounds of the model.

\* longest str drawn for original / corrected
MaxLen == 3
\* number of distinct characters the drawn strs are made of
NumChars == 2

Alphabet == {96 + c : c \in 1..NumChars}

RECURSIVE StringsOfLen(_)
StringsOfLen(n) ==
    IF n = 0 THEN {<<>>}
    ELSE {Append(s, c) : s \in StringsOfLen(n - 1), c \in Alphabet}

Strings == UNION {StringsOfLen(n) : n \in 0..MaxLen}

\* Example C of the specification: "甲方：张三" and "甲方：李四" as code points.
ExampleOriginal == <<30002, 26041, 65306, 24352, 19977>>
ExampleCorrected == <<30002, 26041, 65306, 26446, 22235>>

Inputs == (Strings \X Strings) \cup {<<ExampleOriginal, ExampleCorrected>>}

\* longest text drawn for text1 / text2
MaxTextLen == 4

\* A text is made of one letter and the line feed.
LF == 10
TextAlphabet == {97, LF}

RECURSIVE TextsOfLen(_)
TextsOfLen(n) ==
    IF n = 0 THEN {<<>>}
    ELSE {Append(s, c) : s \in TextsOfLen(n - 1), c \in TextAlphabet}

Texts == UNION {TextsOfLen(n) : n \in 0..MaxTextLen}

\* longest str handed to a compare_text call that is followed step by step
MaxStepLen == 3

\* The strs over two characters, up to MaxStepLen long.
RECURSIVE StepStringsOfLen(_)
StepStringsOfLen(n) ==
    IF n = 0 THEN {<<>>}
    ELSE {Append(s, c) : s \in StepStringsOfLen(n - 1), c \in {1, 2}}

StepStrings == UNION {StepStringsOfLen(n) : n \in 0..MaxStepLen}

\* how many compare_text calls run at the same time on one instance
NumCalls == 2

\* The arguments of the calls that run at the same time: "ab" against "ba",
\* "aa" against "a", and "a" against "".
SharedInputs == {<<<<1, 2>>, <<2, 1>>>>, <<<<1, 1>>, <<1>>>>, <<<<1>>, <<>>>>}

\* Example A: the lines "a", "b", "c" against the lines "a", "x", "c".
ExampleAText1 == <<97, LF, 98, LF, 99>>
ExampleAText2 == <<97, LF, 120, LF, 99>>

TextInputs == (Texts \X Texts) \cup {<<ExampleAText1, ExampleAText2>>}

\* longest list drawn for _merge_differences
MaxDiffs == 3

\* The ranges and types a drawn record is made of: enough for every pattern
\* of equal / unequal types and touching / apart ranges between neighbours.
DrawnRanges == {<<0, 0>>, <<0, 1>>, <<1, 1>>}
DrawnTypes == {"Delete", "Insert"}
DrawnShapes == DrawnTypes \X DrawnRanges \X DrawnRanges

ShapeListsOfLen(n) == [1..n -> DrawnShapes]

\* The k-th record of a drawn list holds the characters 100+k and 200+k, so
\* that every content names the record it came from.
DrawnList(shapes) ==
    [k \in 1..Len(shapes) |->
        [type |-> shapes[k][1],
         original |-> <<100 + k>>,
         corrected |-> <<200 + k>>,
         start_original |-> shapes[k][2][1],
         end_original |-> shapes[k][2][2],
         start_corrected |-> shapes[k][3][1],
         end_corrected |-> shapes[k][3][2]]]

\* longest raw text drawn for a file
MaxFileLen == 3

\* What is at a path: nothing, a file of another format, a .pdf / .docx file
\* the extraction library fails on, or one it reads raw text from.
Files ==
    {[kind |-> k, text |-> <<>>] : k \in {"missing", "other", "broken_pdf", "broken_docx"}}
    \cup {[kind |-> k, text |-> t] :
            k \in {"pdf", "docx"}, t \in UNION {TextsOfLen(n) : n \in 0..MaxFileLen}}

----------------------------------------------------------------------------
\* Python helpers.

\* s[a:b] for 0 <= a, b <= len(s); empty when a >= b.
Slice(s, a, b) == SubSeq(s, a + 1, b)

\* s[a] with a 0-based.
At(s, a) == s[a + 1]

Max(a, b) == IF a >= b THEN a ELSE b

RECURSIVE Reverse(_)
Reverse(s) == IF s = <<>> THEN <<>> ELSE Append(Reverse(Tail(s)), Head(s))

\* The "type" values of a difference record.
TypeInsert == "Insert"    \* "新增"
TypeDelete == "Delete"    \* "删除"
TypeReplace == "Replace"  \* "替换"

----------------------------------------------------------------------------
\* LegalSpellingCorrector._get_lcs_with_indices

\* The DP fill of lines 158-164 from cell (i, j) on, row by row.
RECURSIVE DpFill(_, _, _, _, _)
DpFill(s1, s2, dp, i, j) ==
    IF i > Len(s1) THEN dp
    ELSE IF j > Len(s2) THEN DpFill(s1, s2, dp, i + 1, 1)
    ELSE DpFill(s1, s2,
                [dp EXCEPT ![i][j] =
                    IF At(s1, i - 1) = At(s2, j - 1)
                    THEN dp[i - 1][j - 1] + 1
                    ELSE Max(dp[i - 1][j], dp[i][j - 1])],
                i, j + 1)

\* dp[i][j] for i in 0..m, j in 0..n, all zero before the fill.
DpTable(s1, s2) ==
    DpFill(s1, s2, [i \in 0..Len(s1) |-> [j \in 0..Len(s2) |-> 0]], 1, 1)

\* Backtrack with the comparison of line 179 turned round.
RECURSIVE BacktrackDownhill(_, _, _, _, _)
BacktrackDownhill(s1, s2, dp, i, j) ==
    IF ~(i > 0 /\ j > 0) THEN <<>>
    ELSE IF At(s1, i - 1) = At(s2, j - 1)
         THEN <<[c |-> At(s1, i - 1), i1 |-> i - 1, i2 |-> j - 1]>>
              \o BacktrackDownhill(s1, s2, dp, i - 1, j - 1)
         ELSE IF dp[i - 1][j] < dp[i][j - 1]
              THEN BacktrackDownhill(s1, s2, dp, i - 1, j)
              ELSE BacktrackDownhill(s1, s2, dp, i, j - 1)

\* The backtracking walk from (i, j); the pairs in the order they are appended.
RECURSIVE Backtrack(_, _, _, _, _)
Backtrack(s1, s2, dp, i, j) ==
    IF ~(i > 0 /\ j > 0) THEN <<>>
    ELSE IF At(s1, i - 1) = At(s2, j - 1)
         THEN <<[c |-> At(s1, i - 1), i1 |-> i - 1, i2 |-> j - 1]>>
              \o Backtrack(s1, s2, dp, i - 1, j - 1)
         ELSE IF dp[i - 1][j] > dp[i][j - 1]
              THEN Backtrack(s1, s2, dp, i - 1, j)
              ELSE Backtrack(s1, s2, dp, i, j - 1)

\* get_lcs_with_indices without the reversals of lines 185-187.
get_lcs_unreversed(s1, s2) ==
    LET walk == Backtrack(s1, s2, DpTable(s1, s2), Len(s1), Len(s2))
    IN [lcs |-> [k \in 1..Len(walk) |-> walk[k].c],
        original |-> [k \in 1..Len(walk) |-> walk[k].i1],
        corrected |-> [k \in 1..Len(walk) |-> walk[k].i2]]

get_lcs_with_indices(s1, s2) ==
    LET m == Len(s1)
        n == Len(s2)
        walk == Reverse(Backtrack(s1, s2, DpTable(s1, s2), m, n))
    IN [lcs |-> [k \in 1..Len(walk) |-> walk[k].c],
        original |-> [k \in 1..Len(walk) |-> walk[k].i1],
        corrected |-> [k \in 1..Len(walk) |-> walk[k].i2]]

----------------------------------------------------------------------------
\* LegalSpellingCorrector._merge_differences

\* Mergeable with the original-side test comparing the two starts.
MergeableSameStart(last, curr) ==
    /\ last.type = curr.type
    /\ last.start_original = curr.start_original
    /\ last.end_corrected = curr.start_corrected

\* Mergeable without the test of the corrected side (line 201).
MergeableOriginalOnly(last, curr) ==
    /\ last.type = curr.type
    /\ last.end_original = curr.start_original

\* Lines 199-201: the test that merges curr into last.
Mergeable(last, curr) ==
    /\ last.type = curr.type
    /\ last.end_original = curr.start_original
    /\ last.end_corrected = curr.start_corrected

\* Merged with "start_original" taken from curr.
MergedFromCurrStart(last, curr) ==
    [type |-> last.type,
     original |-> last.original \o curr.original,
     corrected |-> last.corrected \o curr.corrected,
     start_original |-> curr.start_original,
     end_original |-> curr.end_original,
     start_corrected |-> last.start_corrected,
     end_corrected |-> curr.end_corrected]

\* Lines 202-210: the record that replaces last.
Merged(last, curr) ==
    [type |-> last.type,
     original |-> last.original \o curr.original,
     corrected |-> last.corrected \o curr.corrected,
     start_original |-> last.start_original,
     end_original |-> curr.end_original,
     start_corrected |-> last.start_corrected,
     end_corrected |-> curr.end_corrected]

\* The for loop of lines 196-212 over rest, with merged built so far.
RECURSIVE MergeLoop(_, _)
MergeLoop(merged, rest) ==
    IF rest = <<>> THEN merged
    ELSE LET curr == Head(rest)
             last == merged[Len(merged)]
         IN IF Mergeable(last, curr)
            THEN MergeLoop([merged EXCEPT ![Len(merged)] = Merged(last, curr)],
                           Tail(rest))
            ELSE MergeLoop(Append(merged, curr), Tail(rest))

merge_differences(differences) ==
    IF differences = <<>> THEN <<>>
    ELSE MergeLoop(<<Head(differences)>>, Tail(differences))

----------------------------------------------------------------------------
\* LegalSpellingCorrector.compare_text

\* DeleteRecord with the content sliced as original[i:].
DeleteRecordWholeRest(orig, i, orig_pos, j) ==
    [type |-> TypeDelete,
     original |-> Slice(orig, i, Len(orig)),
     corrected |-> <<>>,
     start_original |-> i,
     end_original |-> orig_pos,
     start_corrected |-> j,
     end_corrected |-> j]

\* Lines 93-101 and 124-132: a Delete record for original[i:orig_pos].
DeleteRecord(orig, i, orig_pos, j) ==
    [type |-> TypeDelete,
     original |-> Slice(orig, i, orig_pos),
     corrected |-> <<>>,
     start_original |-> i,
     end_original |-> orig_pos,
     start_corrected |-> j,
     end_corrected |-> j]

\* Lines 106-114 and 136-144: an Insert record for corrected[j:corr_pos].
InsertRecord(corr, i, j, corr_pos) ==
    [type |-> TypeInsert,
     original |-> <<>>,
     corrected |-> Slice(corr, j, corr_pos),
     start_original |-> i,
     end_original |-> i,
     start_corrected |-> j,
     end_corrected |-> corr_pos]

\* GapRecords with the Insert record built before i is advanced (line 102).
GapRecordsStaleI(orig, corr, i, j, orig_pos, corr_pos) ==
    (IF i < orig_pos THEN <<DeleteRecord(orig, i, orig_pos, j)>> ELSE <<>>)
    \o
    (IF j < corr_pos THEN <<InsertRecord(corr, i, j, corr_pos)>> ELSE <<>>)

\* GapRecords with one Delete record appended per character of the gap.
GapRecordsPerCharacter(orig, corr, i, j, orig_pos, corr_pos) ==
    [n \in 1..(IF i < orig_pos THEN orig_pos - i ELSE 0) |->
        DeleteRecord(orig, i + n - 1, i + n, j)]
    \o
    (IF j < corr_pos
     THEN <<InsertRecord(corr, IF i < orig_pos THEN orig_pos ELSE i, j, corr_pos)>>
     ELSE <<>>)

\* GapRecords with the second test written j <= corr_pos.
GapRecordsInsertAlways(orig, corr, i, j, orig_pos, corr_pos) ==
    (IF i < orig_pos THEN <<DeleteRecord(orig, i, orig_pos, j)>> ELSE <<>>)
    \o
    (IF j <= corr_pos
     THEN <<InsertRecord(corr, IF i < orig_pos THEN orig_pos ELSE i, j, corr_pos)>>
     ELSE <<>>)

\* Lines 88-115: the records appended for the gap before the matched pair
\* (orig_pos, corr_pos), the pointers being at (i, j).
GapRecords(orig, corr, i, j, orig_pos, corr_pos) ==
    (IF i < orig_pos THEN <<DeleteRecord(orig, i, orig_pos, j)>> ELSE <<>>)
    \o
    (IF j < corr_pos
     THEN <<InsertRecord(corr, IF i < orig_pos THEN orig_pos ELSE i, j, corr_pos)>>
     ELSE <<>>)

\* GapWalk with j not stepped past the matched character (line 119).
RECURSIVE GapWalkNoStepJ(_, _, _, _, _, _, _)
GapWalkNoStepJ(orig, corr, idx, i, j, k, differences) ==
    IF ~(k < Len(idx.lcs)) THEN [i |-> i, j |-> j, differences |-> differences]
    ELSE LET orig_pos == At(idx.original, k)
             corr_pos == At(idx.corrected, k)
             i1 == IF i < orig_pos THEN orig_pos ELSE i
             j1 == IF j < corr_pos THEN corr_pos ELSE j
         IN GapWalkNoStepJ(orig, corr, idx, i1 + 1, j1, k + 1,
                    differences \o GapRecords(orig, corr, i, j, orig_pos, corr_pos))

\* Lines 86-120: the while loop from (i, j, k) on; returns the pointers and
\* the differences at its exit.
RECURSIVE GapWalk(_, _, _, _, _, _, _)
GapWalk(orig, corr, idx, i, j, k, differences) ==
    IF ~(k < Len(idx.lcs)) THEN [i |-> i, j |-> j, differences |-> differences]
    ELSE LET orig_pos == At(idx.original, k)
             corr_pos == At(idx.corrected, k)
             i1 == IF i < orig_pos THEN orig_pos ELSE i
             j1 == IF j < corr_pos THEN corr_pos ELSE j
         IN GapWalk(orig, corr, idx, i1 + 1, j1 + 1, k + 1,
                    differences \o GapRecords(orig, corr, i, j, orig_pos, corr_pos))

\* TrailingRecords with the two tests chained by elif.
TrailingRecordsElif(orig, corr, i, j) ==
    IF i < Len(orig) THEN <<DeleteRecord(orig, i, Len(orig), j)>>
    ELSE IF j < Len(corr) THEN <<InsertRecord(corr, i, j, Len(corr))>>
    ELSE <<>>

\* Lines 122-144: the records appended after the loop, the pointers being at
\* (i, j); i is not advanced between the two tests.
TrailingRecords(orig, corr, i, j) ==
    (IF i < Len(orig) THEN <<DeleteRecord(orig, i, Len(orig), j)>> ELSE <<>>)
    \o
    (IF j < Len(corr) THEN <<InsertRecord(corr, i, j, Len(corr))>> ELSE <<>>)

\* EmptyOriginalRecord with "end" left at 0.
EmptyOriginalRecordNoRange(corr) ==
    [type |-> TypeInsert, content |-> corr, start |-> 0, end |-> 0]

\* Lines 59-61: the record of an empty original.
EmptyOriginalRecord(corr) ==
    [type |-> TypeInsert, content |-> corr, start |-> 0, end |-> Len(corr)]

\* Lines 62-64: the record of an empty corrected.
EmptyCorrectedRecord(orig) ==
    [type |-> TypeDelete, content |-> orig, start |-> 0, end |-> Len(orig)]

\* Lines 68-79: the record of two strs with an empty LCS.
WholeReplaceRecord(orig, corr) ==
    [type |-> TypeReplace,
     original |-> orig,
     corrected |-> corr,
     start_original |-> 0,
     end_original |-> Len(orig),
     start_corrected |-> 0,
     end_corrected |-> Len(corr)]

\* The differences list before the merge of line 147 (lines 81-144).
UnmergedDifferences(orig, corr, idx) ==
    LET w == GapWalk(orig, corr, idx, 0, 0, 0, <<>>)
    IN w.differences \o TrailingRecords(orig, corr, w.i, w.j)

\* Differences without the empty-LCS return of lines 68-79.
DifferencesNoDisjointCase(orig, corr) ==
    IF orig = <<>> /\ corr = <<>> THEN <<>>
    ELSE IF orig = <<>> THEN <<EmptyOriginalRecord(corr)>>
    ELSE IF corr = <<>> THEN <<EmptyCorrectedRecord(orig)>>
    ELSE merge_differences(
            UnmergedDifferences(orig, corr, get_lcs_with_indices(orig, corr)))

\* The differences list compare_text returns.
Differences(orig, corr) ==
    IF orig = <<>> /\ corr = <<>> THEN <<>>
    ELSE IF orig = <<>> THEN <<EmptyOriginalRecord(corr)>>
    ELSE IF corr = <<>> THEN <<EmptyCorrectedRecord(orig)>>
    ELSE LET idx == get_lcs_with_indices(orig, corr)
         IN IF idx.lcs = <<>> THEN <<WholeReplaceRecord(orig, corr)>>
            ELSE merge_differences(UnmergedDifferences(orig, corr, idx))

compare_text(orig, corr) ==
    [original |-> orig, corrected |-> corr, differences |-> Differences(orig, corr)]

----------------------------------------------------------------------------
\* main: the predict loop body over one example (src/main.py lines 61-74).

\* Line 71 reads diff['original'] and diff['corrected'] of every record.
Readable(diff) == {"original", "corrected"} \subseteq DOMAIN diff

PrintedLines(differences) ==
    [k \in 1..Len(differences) |->
        <<differences[k].original, differences[k].corrected>>]

----------------------------------------------------------------------------
\* EnhancedContractComparator.compare_texts

\* str.splitlines() of a text whose only line boundary is the line feed.
RECURSIVE splitlines(_)
splitlines(text) ==
    IF text = <<>> THEN <<>>
    ELSE IF \E p \in 1..Len(text) : text[p] = LF
         THEN LET p == CHOOSE q \in 1..Len(text) :
                          /\ text[q] = LF
                          /\ \A r \in 1..(q - 1) : text[r] # LF
              IN <<SubSeq(text, 1, p - 1)>>
                 \o splitlines(SubSeq(text, p + 1, Len(text)))
         ELSE <<text>>

\* difflib.SequenceMatcher.find_longest_match(alo, ahi, blo, bhi) with no junk
\* (autojunk needs 200 lines or more): the longest block a[i:i+k] == b[j:j+k]
\* inside the two windows, the earliest in a among the longest, the earliest
\* in b among those; (alo, blo, 0) when nothing matches.
MatchesIn(a, b, alo, ahi, blo, bhi) ==
    {m \in (alo..(ahi - 1)) \X (blo..(bhi - 1)) \X (1..(ahi - alo)) :
        /\ m[1] + m[3] <= ahi
        /\ m[2] + m[3] <= bhi
        /\ Slice(a, m[1], m[1] + m[3]) = Slice(b, m[2], m[2] + m[3])}

find_longest_match(a, b, alo, ahi, blo, bhi) ==
    LET ms == MatchesIn(a, b, alo, ahi, blo, bhi)
    IN IF ms = {} THEN <<alo, blo, 0>>
       ELSE CHOOSE m \in ms : \A o \in ms :
                \/ m[3] > o[3]
                \/ m[3] = o[3] /\ m[1] < o[1]
                \/ m[3] = o[3] /\ m[1] = o[1] /\ m[2] <= o[2]

\* The blocks get_matching_blocks collects for the two windows, sorted.
RECURSIVE MatchingBlocksIn(_, _, _, _, _, _)
MatchingBlocksIn(a, b, alo, ahi, blo, bhi) ==
    LET x == find_longest_match(a, b, alo, ahi, blo, bhi)
        i == x[1]
        j == x[2]
        k == x[3]
    IN IF k = 0 THEN <<>>
       ELSE (IF alo < i /\ blo < j
             THEN MatchingBlocksIn(a, b, alo, i, blo, j) ELSE <<>>)
            \o <<x>> \o
            (IF i + k < ahi /\ j + k < bhi
             THEN MatchingBlocksIn(a, b, i + k, ahi, j + k, bhi) ELSE <<>>)

\* get_matching_blocks collapses adjacent blocks.
RECURSIVE CollapseBlocks(_, _)
CollapseBlocks(done, rest) ==
    IF rest = <<>> THEN done
    ELSE IF done # <<>>
            /\ done[Len(done)][1] + done[Len(done)][3] = Head(rest)[1]
            /\ done[Len(done)][2] + done[Len(done)][3] = Head(rest)[2]
         THEN CollapseBlocks(
                [done EXCEPT ![Len(done)] =
                    <<@[1], @[2], @[3] + Head(rest)[3]>>], Tail(rest))
         ELSE CollapseBlocks(Append(done, Head(rest)), Tail(rest))

get_matching_blocks(a, b) ==
    Append(CollapseBlocks(<<>>, MatchingBlocksIn(a, b, 0, Len(a), 0, Len(b))),
           <<Len(a), Len(b), 0>>)

\* get_opcodes: the walk over the matching blocks from (i, j).
RECURSIVE OpcodesFrom(_, _, _)
OpcodesFrom(blocks, i, j) ==
    IF blocks = <<>> THEN <<>>
    ELSE LET ai == Head(blocks)[1]
             bj == Head(blocks)[2]
             size == Head(blocks)[3]
             tag == IF i < ai /\ j < bj THEN "replace"
                    ELSE IF i < ai THEN "delete"
                    ELSE IF j < bj THEN "insert"
                    ELSE ""
         IN (IF tag # ""
             THEN <<[tag |-> tag, i1 |-> i, i2 |-> ai, j1 |-> j, j2 |-> bj]>>
             ELSE <<>>)
            \o
            (IF size > 0
             THEN <<[tag |-> "equal", i1 |-> ai, i2 |-> ai + size,
                     j1 |-> bj, j2 |-> bj + size]>>
             ELSE <<>>)
            \o OpcodesFrom(Tail(blocks), ai + size, bj + size)

get_opcodes(a, b) == OpcodesFrom(get_matching_blocks(a, b), 0, 0)

\* An appended line: plain, or wrapped in a diff-removed / diff-added span.
Rendered(mark, line) == [mark |-> mark, line |-> line]

\* OriginalSide with the lines of a replace opcode left unmarked.
OriginalSideReplacePlain(op, text1_lines) ==
    IF op.tag \in {"replace", "delete", "equal"}
    THEN [k \in 1..(op.i2 - op.i1) |->
            Rendered(IF op.tag = "delete" THEN "removed" ELSE "plain",
                     At(text1_lines, op.i1 + k - 1))]
    ELSE <<>>

\* Lines 133-142: what one opcode appends to original_content.
OriginalSide(op, text1_lines) ==
    IF op.tag \in {"replace", "delete", "equal"}
    THEN [k \in 1..(op.i2 - op.i1) |->
            Rendered(IF op.tag = "equal" THEN "plain" ELSE "removed",
                     At(text1_lines, op.i1 + k - 1))]
    ELSE <<>>

\* Lines 145-154: what one opcode appends to new_content.
NewSide(op, text2_lines) ==
    IF op.tag \in {"replace", "insert", "equal"}
    THEN [k \in 1..(op.j2 - op.j1) |->
            Rendered(IF op.tag = "equal" THEN "plain" ELSE "added",
                     At(text2_lines, op.j1 + k - 1))]
    ELSE <<>>

\* Lines 131-154: the loop over the opcodes, with the report built so far.
RECURSIVE OpcodeLoop(_, _, _, _)
OpcodeLoop(ops, text1_lines, text2_lines, r) ==
    IF ops = <<>> THEN r
    ELSE LET op == Head(ops)
         IN OpcodeLoop(Tail(ops), text1_lines, text2_lines,
              [original_content |-> r.original_content \o OriginalSide(op, text1_lines),
               new_content |-> r.new_content \o NewSide(op, text2_lines),
               additions_count |-> r.additions_count
                    + (IF op.tag = "insert" THEN op.j2 - op.j1 ELSE 0),
               deletions_count |-> r.deletions_count
                    + (IF op.tag = "delete" THEN op.i2 - op.i1 ELSE 0),
               changes_count |-> r.changes_count
                    + (IF op.tag = "replace" THEN op.i2 - op.i1 ELSE 0)])

\* Lines 158 and 160: the "no content" placeholder.
NoContent == Rendered("no-change", <<>>)

EmptyReport ==
    [original_content |-> <<>>, new_content |-> <<>>,
     additions_count |-> 0, deletions_count |-> 0, changes_count |-> 0]

\* compare_texts with line 159 testing original_content as line 157 does.
compare_texts_one_test(t1, t2) ==
    LET text1_lines == splitlines(t1)
        text2_lines == splitlines(t2)
        r == OpcodeLoop(get_opcodes(text1_lines, text2_lines),
                        text1_lines, text2_lines, EmptyReport)
    IN [r EXCEPT
          !.original_content = IF Len(@) = 0 THEN <<NoContent>> ELSE @,
          !.new_content = IF Len(r.original_content) = 0
                          THEN Append(@, NoContent) ELSE @]

\* Lines 116-164.
compare_texts(t1, t2) ==
    LET text1_lines == splitlines(t1)
        text2_lines == splitlines(t2)
        r == OpcodeLoop(get_opcodes(text1_lines, text2_lines),
                        text1_lines, text2_lines, EmptyReport)
    IN [r EXCEPT
          !.original_content = IF Len(@) = 0 THEN <<NoContent>> ELSE @,
          !.new_content = IF Len(@) = 0 THEN <<NoContent>> ELSE @]

----------------------------------------------------------------------------
\* EnhancedContractComparator.extract_text and compare_files

\* None, or a str.
None == [none |-> TRUE, text |-> <<>>]
Str(t) == [none |-> FALSE, text |-> t]

\* Python's truth of None or a str.
Truthy(v) == ~v.none /\ v.text # <<>>

\* Line 209 with "and" in place of "or".
RejectedWhenBoth(t1, t2) == ~Truthy(t1) /\ ~Truthy(t2)

\* Line 209: if not text1 or not text2.
Rejected(t1, t2) == ~Truthy(t1) \/ ~Truthy(t2)

\* str.strip() of a text whose only white space is the line feed.
RECURSIVE strip(_)
strip(t) ==
    IF t = <<>> THEN t
    ELSE IF Head(t) = LF THEN strip(Tail(t))
    ELSE IF t[Len(t)] = LF THEN strip(SubSeq(t, 1, Len(t) - 1))
    ELSE t

\* re.sub(r'\n\s*\n', '\n\n', t): every run of two line feeds or more
\* becomes two line feeds.
RECURSIVE CollapseBlankLines(_)
CollapseBlankLines(t) ==
    IF Len(t) < 2 THEN t
    ELSE IF t[1] = LF /\ t[2] = LF
         THEN LET rest == CollapseBlankLines(Tail(t))
              IN IF Len(rest) >= 2 /\ rest[1] = LF /\ rest[2] = LF
                 THEN rest ELSE <<LF>> \o rest
         ELSE <<Head(t)>> \o CollapseBlankLines(Tail(t))

\* Lines 89-95.
clean_text(t) == CollapseBlankLines(strip(t))

\* Lines 97-111, with extract_text_from_pdf and extract_text_from_word.
extract_text(file) ==
    IF file.kind \in {"pdf", "docx"} THEN Str(clean_text(file.text)) ELSE None

----------------------------------------------------------------------------
\* trainer.py: Trainer.train

\* the largest number of epochs drawn for Trainer.epochs
MaxEpochs == 3

\* the largest finite validation loss drawn
MaxLoss == 2

\* A float: a finite value, float('inf'), or nan.
Finite(x) == [kind |-> "finite", value |-> x]
Inf == [kind |-> "inf", value |-> 0]
NaN == [kind |-> "nan", value |-> 0]

\* What evaluate() can return.
Losses == {Finite(x) : x \in 0..MaxLoss} \cup {Inf, NaN}

\* Python's a < b on floats: false whenever one side is nan.
Less(a, b) ==
    IF a = NaN \/ b = NaN THEN FALSE
    ELSE IF a = Inf THEN FALSE
    ELSE IF b = Inf THEN TRUE
    ELSE a.value < b.value

\* Line 115 with <= for <.
ImprovesOrTies(val_loss, best) == Less(val_loss, best) \/ (val_loss = best /\ val_loss # NaN)

\* Line 115: if val_loss < self.best_val_loss.
Improves(val_loss, best) == Less(val_loss, best)

----------------------------------------------------------------------------
\* app.py: the /correct handler

\* What request.get_json() (line 42) does: it raises when Flask rejects the
\* body, or returns the JSON value of the body. A value is described by its
\* kind, whether Python takes it as false, whether 'text' is a key of the
\* object / an element of the array / a part of the string, and the str
\* under the key 'text'.
Json(kind, falsy, has_text, text) ==
    [kind |-> kind, falsy |-> falsy, has_text |-> has_text, text |-> text]

\* The strs sent under the key 'text': "" and "ab".
SentTexts == {<<>>, <<1, 2>>}

Requests ==
    {Json("rejected", FALSE, FALSE, <<>>),  \* get_json raises
     Json("null", TRUE, FALSE, <<>>),       \* get_json returns None
     Json("object", TRUE, FALSE, <<>>),     \* {}
     Json("object", FALSE, FALSE, <<>>),    \* {"other": ...}
     Json("array", TRUE, FALSE, <<>>),      \* []
     Json("array", FALSE, FALSE, <<>>),     \* ["other"]
     Json("array", FALSE, TRUE, <<>>),      \* ["text"]
     Json("string", TRUE, FALSE, <<>>),     \* ""
     Json("string", FALSE, FALSE, <<>>),    \* "other"
     Json("string", FALSE, TRUE, <<>>),     \* "text"
     Json("number", TRUE, FALSE, <<>>),     \* 0
     Json("number", FALSE, FALSE, <<>>),    \* 1
     Json("bool", TRUE, FALSE, <<>>),       \* false
     Json("bool", FALSE, FALSE, <<>>)}      \* true
    \cup {Json("object", FALSE, TRUE, t) : t \in SentTexts}

\* What model.correct_text(text) does (line 52): it raises, or returns a str.
CorrectTextOutcomes ==
    {[raises |-> TRUE, text |-> <<>>]}
    \cup {[raises |-> FALSE, text |-> t] : t \in {<<>>, <<1, 2>>, <<2, 1>>}}

\* 'text' in data raises TypeError on a number or a bool.
Iterable(data) == data.kind \in {"object", "array", "string"}

\* data['text'] raises TypeError on an array or a str.
HasKeys(data) == data.kind = "object"

ErrorResponse(status) == [status |-> status, body |-> [error |-> "error"]]

\* Lines 56-60.
OkResponse(text, corrected_text, errors) ==
    [status |-> 200,
     body |-> [original_text |-> text,
               corrected_text |-> corrected_text,
               errors |-> errors]]

\* Line 44: not data or 'text' not in data (the second test is reached by a
\* value Python takes as true, and evaluated on an iterable one).
MissingText(data) == data.falsy \/ ~data.has_text

\* Lines 41-68: the calls made on model and the response, given what
\* get_json and correct_text do.
Handled(data, outcome) ==
    IF data.kind = "rejected"
    THEN [calls |-> <<>>, response |-> ErrorResponse(500)]
    ELSE IF ~data.falsy /\ ~Iterable(data)
    THEN [calls |-> <<>>, response |-> ErrorResponse(500)]
    ELSE IF MissingText(data)
    THEN [calls |-> <<>>, response |-> ErrorResponse(400)]
    ELSE IF ~HasKeys(data)
    THEN [calls |-> <<>>, response |-> ErrorResponse(500)]
    ELSE IF outcome.raises
    THEN [calls |-> <<<<"correct_text", data.text>>>>,
          response |-> ErrorResponse(500)]
    ELSE [calls |-> <<<<"correct_text", data.text>>,
                      <<"compare_text", data.text, outcome.text>>>>,
          response |-> OkResponse(data.text, outcome.text,
                                  compare_text(data.text, outcome.text).differences)]

----------------------------------------------------------------------------
\* What a call that has not returned has produced.

NoAlignment == [lcs |-> <<>>, original |-> <<>>, corrected |-> <<>>]

NoResult == [original |-> <<>>, corrected |-> <<>>, differences |-> <<>>]

----------------------------------------------------------------------------
\* compare_text statement by statement: one step per loop iteration, on the
\* locals of one call (a frame) and the attributes of the instance.

\* Python's test of a list index: -len <= index < len, else IndexError.
PyValid(index, len) == -len <= index /\ index < len

\* Python's list read, a negative index counting from the end.
PyAt(s, index) == s[(IF index < 0 THEN index + Len(s) ELSE index) + 1]

\* dp[a][b] on the list of m+1 lists of n+1 cells.
DpValid(dp, a, b) ==
    /\ PyValid(a, Cardinality(DOMAIN dp))
    /\ PyValid(b, Cardinality(DOMAIN dp[0]))

DpAt(dp, a, b) ==
    LET rows == Cardinality(DOMAIN dp)
        cols == Cardinality(DOMAIN dp[0])
    IN dp[IF a < 0 THEN a + rows ELSE a][IF b < 0 THEN b + cols ELSE b]

\* The locals at the entry of compare_text(original, corrected).
NewFrame(orig, corr) ==
    [at |-> "start", original |-> orig, corrected |-> corr,
     dp |-> <<>>, i |-> 0, j |-> 0, k |-> 0,
     lcs |-> <<>>, indices_s1 |-> <<>>, indices_s2 |-> <<>>,
     differences |-> <<>>, merged |-> <<>>, next |-> 0,
     result |-> NoResult]

\* An IndexError propagates out of compare_text.
Raised(f) == [f EXCEPT !.at = "raised"]

\* return {"original": ..., "corrected": ..., "differences": diffs}
Returned(f, diffs) ==
    [f EXCEPT !.at = "done",
              !.result = [original |-> f.original, corrected |-> f.corrected,
                          differences |-> diffs]]

\* differences.append(...) with the list kept on the instance, where every
\* call finds it.
AppendToInstance(f, self, recs) ==
    LET all == (IF "differences" \in DOMAIN self THEN self.differences ELSE <<>>) \o recs
    IN <<[f EXCEPT !.differences = all],
         [a \in DOMAIN self \cup {"differences"} |->
             IF a = "differences" THEN all ELSE self[a]]>>

\* differences.append(...): the list is the local of line 55.
AppendDifferences(f, self, recs) ==
    <<[f EXCEPT !.differences = @ \o recs], self>>

\* Lines 55-65, and the entry of _get_lcs_with_indices (lines 156-158).
OnStart(f, self) ==
    IF f.original = <<>> /\ f.corrected = <<>>
    THEN <<Returned(f, f.differences), self>>
    ELSE IF f.original = <<>>
    THEN LET a == AppendDifferences(f, self, <<EmptyOriginalRecord(f.corrected)>>)
         IN <<Returned(a[1], a[1].differences), a[2]>>
    ELSE IF f.corrected = <<>>
    THEN LET a == AppendDifferences(f, self, <<EmptyCorrectedRecord(f.original)>>)
         IN <<Returned(a[1], a[1].differences), a[2]>>
    ELSE <<[f EXCEPT !.at = "fill",
                     !.dp = [i \in 0..Len(f.original) |->
                                [j \in 0..Len(f.corrected) |-> 0]],
                     !.i = 1, !.j = 1], self>>

\* Lines 159-164: one cell of the DP fill, then the loop heads; after the
\* last cell, lines 167-170.
OnFill(f, self) ==
    LET s1 == f.original
        s2 == f.corrected
        m == Len(s1)
        n == Len(s2)
    IN IF ~(PyValid(f.i - 1, m) /\ PyValid(f.j - 1, n)) THEN <<Raised(f), self>>
       ELSE LET eq == PyAt(s1, f.i - 1) = PyAt(s2, f.j - 1)
                ok == /\ DpValid(f.dp, f.i, f.j)
                      /\ IF eq THEN DpValid(f.dp, f.i - 1, f.j - 1)
                         ELSE DpValid(f.dp, f.i - 1, f.j) /\ DpValid(f.dp, f.i, f.j - 1)
            IN IF ~ok THEN <<Raised(f), self>>
               ELSE LET cell == IF eq THEN DpAt(f.dp, f.i - 1, f.j - 1) + 1
                                ELSE Max(DpAt(f.dp, f.i - 1, f.j), DpAt(f.dp, f.i, f.j - 1))
                        filled == [f EXCEPT !.dp[f.i][f.j] = cell]
                    IN IF f.j < n THEN <<[filled EXCEPT !.j = f.j + 1], self>>
                       ELSE IF f.i < m THEN <<[filled EXCEPT !.i = f.i + 1, !.j = 1], self>>
                       ELSE <<[filled EXCEPT !.at = "backtrack", !.i = m, !.j = n], self>>

\* Line 179 with >= for >.
MovesUpOnTie(dp, i, j) == DpAt(dp, i - 1, j) >= DpAt(dp, i, j - 1)

\* Line 179: elif dp[i - 1][j] > dp[i][j - 1].
MovesUp(dp, i, j) == DpAt(dp, i - 1, j) > DpAt(dp, i, j - 1)

\* Line 172: while i > 0 and j > 0.
BacktrackContinues(f) == f.i > 0 /\ f.j > 0

\* Lines 173-182: one iteration of the backtracking walk.
OnBacktrack(f, self) ==
    LET s1 == f.original
        s2 == f.corrected
    IN IF ~(PyValid(f.i - 1, Len(s1)) /\ PyValid(f.j - 1, Len(s2)))
       THEN <<Raised(f), self>>
       ELSE IF PyAt(s1, f.i - 1) = PyAt(s2, f.j - 1)
       THEN <<[f EXCEPT !.lcs = Append(@, PyAt(s1, f.i - 1)),
                        !.indices_s1 = Append(@, f.i - 1),
                        !.indices_s2 = Append(@, f.j - 1),
                        !.i = f.i - 1, !.j = f.j - 1], self>>
       ELSE IF ~(DpValid(f.dp, f.i - 1, f.j) /\ DpValid(f.dp, f.i, f.j - 1))
       THEN <<Raised(f), self>>
       ELSE IF MovesUp(f.dp, f.i, f.j)
       THEN <<[f EXCEPT !.i = f.i - 1], self>>
       ELSE <<[f EXCEPT !.j = f.j - 1], self>>

\* Lines 185-189, then lines 67-84 of compare_text.
OnLcsReturn(f, self) ==
    LET g == [f EXCEPT !.lcs = Reverse(@),
                       !.indices_s1 = Reverse(@),
                       !.indices_s2 = Reverse(@)]
    IN IF g.lcs = <<>>
       THEN LET a == AppendDifferences(g, self,
                        <<WholeReplaceRecord(g.original, g.corrected)>>)
            IN <<Returned(a[1], a[1].differences), a[2]>>
       ELSE <<[g EXCEPT !.at = "walk", !.i = 0, !.j = 0, !.k = 0], self>>

\* Line 86 with <= for <.
WalkContinuesPastEnd(f) == f.k <= Len(f.lcs)

\* Line 86: while k < len_lcs.
WalkContinues(f) == f.k < Len(f.lcs)

\* Lines 87-120: one iteration of the gap walk.
OnWalk(f, self) ==
    IF ~(PyValid(f.k, Len(f.indices_s1)) /\ PyValid(f.k, Len(f.indices_s2)))
    THEN <<Raised(f), self>>
    ELSE LET orig_pos == PyAt(f.indices_s1, f.k)
             corr_pos == PyAt(f.indices_s2, f.k)
             a == AppendDifferences(f, self,
                     GapRecords(f.original, f.corrected, f.i, f.j, orig_pos, corr_pos))
         IN <<[a[1] EXCEPT !.i = (IF f.i < orig_pos THEN orig_pos ELSE f.i) + 1,
                           !.j = (IF f.j < corr_pos THEN corr_pos ELSE f.j) + 1,
                           !.k = f.k + 1], a[2]>>

\* Lines 122-147, and lines 192-194 of _merge_differences.
OnTrailing(f, self) ==
    LET a == AppendDifferences(f, self,
                 TrailingRecords(f.original, f.corrected, f.i, f.j))
        g == a[1]
    IN IF g.differences = <<>>
       THEN <<Returned(g, <<>>), a[2]>>
       ELSE <<[g EXCEPT !.at = "merge",
                        !.merged = <<PyAt(g.differences, 0)>>,
                        !.next = 1], a[2]>>

\* Line 195: for curr in differences[1:].
MergeContinues(f) == f.next < Len(f.differences)

\* Lines 196-211: one iteration of the merge scan.
OnMerge(f, self) ==
    IF ~PyValid(-1, Len(f.merged)) THEN <<Raised(f), self>>
    ELSE LET curr == PyAt(f.differences, f.next)
             last == PyAt(f.merged, -1)
         IN <<[f EXCEPT !.merged = IF Mergeable(last, curr)
                                   THEN [@ EXCEPT ![Len(@)] = Merged(last, curr)]
                                   ELSE Append(@, curr),
                        !.next = f.next + 1], self>>

\* Line 212, then lines 148-152 of compare_text.
OnMergeReturn(f, self) == <<Returned(f, f.merged), self>>

----------------------------------------------------------------------------
\* Initial states and actions.

NoFile == [kind |-> "missing", text |-> <<>>]

PredictIdle ==
    /\ original = <<>>
    /\ corrected = <<>>
    /\ alignment = NoAlignment
    /\ result = NoResult
    /\ printed = <<>>

ContractIdle == text1 = <<>> /\ text2 = <<>> /\ report = EmptyReport

MergeIdle == mergeInput = <<>> /\ mergeOutput = <<>>

FilesIdle ==
    /\ file1 = NoFile
    /\ file2 = NoFile
    /\ extracted = <<>>
    /\ calls = <<>>
    /\ written = <<>>
    /\ returned = "nothing yet"

\* Lines 6-14: what __init__ leaves on the instance.
LoadedInstance == [device |-> "cpu", tokenizer |-> "loaded", model |-> "loaded"]

CallsIdle == frames = <<>> /\ instance = LoadedInstance

ServeIdle ==
    /\ request = Json("null", TRUE, FALSE, <<>>)
    /\ modelCalls = <<>>
    /\ response = [status |-> 0, body |-> <<>>]

\* Line 33: best_val_loss = float('inf'); nothing saved yet.
Untrained ==
    /\ epoch = 0
    /\ val_losses = <<>>
    /\ best_val_loss = Inf
    /\ best_val_losses = <<>>
    /\ best_model = 0
    /\ last_model = 0

TrainIdle == epochs = 0 /\ Untrained

Init ==
    /\ pc = "call"
    /\ CallsIdle
    /\ \/ /\ mode \in {"align", "predict"}
          /\ \E in \in Inputs : original = in[1] /\ corrected = in[2]
          /\ alignment = NoAlignment
          /\ result = NoResult
          /\ printed = <<>>
          /\ ContractIdle /\ MergeIdle /\ FilesIdle /\ ServeIdle /\ TrainIdle
       \/ /\ mode = "contract"
          /\ \E t \in TextInputs : text1 = t[1] /\ text2 = t[2]
          /\ report = EmptyReport
          /\ PredictIdle /\ MergeIdle /\ FilesIdle /\ ServeIdle /\ TrainIdle
       \/ /\ mode = "merge"
          /\ \E n \in 0..MaxDiffs :
                \E shapes \in ShapeListsOfLen(n) : mergeInput = DrawnList(shapes)
          /\ mergeOutput = <<>>
          /\ PredictIdle /\ ContractIdle /\ FilesIdle /\ ServeIdle /\ TrainIdle
       \/ /\ mode = "files"
          /\ file1 \in Files
          /\ file2 \in Files
          /\ extracted = <<>>
          /\ calls = <<>>
          /\ written = <<>>
          /\ returned = "nothing yet"
          /\ PredictIdle /\ ContractIdle /\ MergeIdle /\ ServeIdle /\ TrainIdle
       \/ /\ mode = "serve"
          /\ request \in Requests
          /\ modelCalls = <<>>
          /\ response = [status |-> 0, body |-> <<>>]
          /\ PredictIdle /\ ContractIdle /\ MergeIdle /\ FilesIdle /\ TrainIdle
       \/ /\ mode = "train"
          /\ epochs \in 0..MaxEpochs
          /\ Untrained
          /\ PredictIdle /\ ContractIdle /\ MergeIdle /\ FilesIdle /\ ServeIdle

\* A call of _get_lcs_with_indices(s1, s2) on two sequences.
GetLcsWithIndices ==
    /\ mode = "align"
    /\ pc = "call"
    /\ alignment' = get_lcs_with_indices(original, corrected)
    /\ pc' = "aligned"
    /\ UNCHANGED <<mode, original, corrected, result, printed>>
    /\ UNCHANGED <<contractVars, mergeVars, filesVars, callVars, serveVars, trainVars>>

\* main line 63 (and app.py line 54): comparison = compare_text(example, corrected)
CompareText ==
    /\ mode = "predict"
    /\ pc = "call"
    /\ result' = compare_text(original, corrected)
    /\ pc' = "compared"
    /\ UNCHANGED <<mode, original, corrected, alignment, printed>>
    /\ UNCHANGED <<contractVars, mergeVars, filesVars, callVars, serveVars, trainVars>>

\* main lines 68-73: print every difference; a record without the key read
\* at line 71 raises KeyError at that record. main's examples (lines 53-57)
\* are non-empty; what correct_text returns for them may be empty.
PrintDifferences ==
    /\ mode = "predict"
    /\ pc = "compared"
    /\ original # <<>>
    /\ LET ds == result.differences
           bad == {k \in 1..Len(ds) : ~Readable(ds[k])}
       IN IF bad = {}
          THEN /\ printed' = PrintedLines(ds)
               /\ pc' = "printed"
          ELSE /\ printed' = PrintedLines(
                                SubSeq(ds, 1, (CHOOSE k \in bad :
                                                \A o \in bad : k <= o) - 1))
               /\ pc' = "KeyError"
    /\ UNCHANGED <<mode, original, corrected, alignment, result>>
    /\ UNCHANGED <<contractVars, mergeVars, filesVars, callVars, serveVars, trainVars>>

\* A call of compare_texts(text1, text2, ...) on two texts.
CompareTexts ==
    /\ mode = "contract"
    /\ pc = "call"
    /\ report' = compare_texts(text1, text2)
    /\ pc' = "reported"
    /\ UNCHANGED <<mode, text1, text2>>
    /\ UNCHANGED <<predictVars, mergeVars, filesVars, callVars, serveVars, trainVars>>

\* A call of _merge_differences(differences) on a list of records.
MergeDifferences ==
    /\ mode = "merge"
    /\ pc = "call"
    /\ mergeOutput' = merge_differences(mergeInput)
    /\ pc' = "merged"
    /\ UNCHANGED <<mode, mergeInput>>
    /\ UNCHANGED <<predictVars, contractVars, filesVars, callVars, serveVars, trainVars>>

\* A call of compare_files(file1_path, file2_path), lines 198-219.
CompareFiles ==
    /\ mode = "files"
    /\ pc = "call"
    /\ LET t1 == extract_text(file1)
           t2 == extract_text(file2)
       IN /\ extracted' = <<t1, t2>>
          /\ IF Rejected(t1, t2)
             THEN /\ calls' = <<"extract_text", "extract_text">>
                  /\ returned' = "None"
                  /\ UNCHANGED <<written, contractVars>>
             ELSE /\ calls' = <<"extract_text", "extract_text",
                                "compare_texts", "save_comparison_result">>
                  /\ text1' = t1.text
                  /\ text2' = t2.text
                  /\ report' = compare_texts(t1.text, t2.text)
                  /\ written' = Append(written, compare_texts(t1.text, t2.text))
                  /\ returned' = "output_file"
    /\ pc' = "returned"
    /\ UNCHANGED <<mode, file1, file2>>
    /\ UNCHANGED <<predictVars, mergeVars, callVars, serveVars, trainVars>>

\* One step of call c moves its frame, and the instance, to step(frame, instance).
Steps(c, step) ==
    /\ frames' = [frames EXCEPT ![c] = step[1]]
    /\ instance' = step[2]
    /\ UNCHANGED mainVars

CallAt(c, where) == mode = "calls" /\ c \in DOMAIN frames /\ frames[c].at = where

CallStart ==
    \E c \in DOMAIN frames :
        CallAt(c, "start") /\ Steps(c, OnStart(frames[c], instance))

DpFillStep ==
    \E c \in DOMAIN frames :
        CallAt(c, "fill") /\ Steps(c, OnFill(frames[c], instance))

BacktrackStep ==
    \E c \in DOMAIN frames :
        /\ CallAt(c, "backtrack")
        /\ BacktrackContinues(frames[c])
        /\ Steps(c, OnBacktrack(frames[c], instance))

LcsReturn ==
    \E c \in DOMAIN frames :
        /\ CallAt(c, "backtrack")
        /\ ~BacktrackContinues(frames[c])
        /\ Steps(c, OnLcsReturn(frames[c], instance))

GapWalkStep ==
    \E c \in DOMAIN frames :
        /\ CallAt(c, "walk")
        /\ WalkContinues(frames[c])
        /\ Steps(c, OnWalk(frames[c], instance))

TrailingStep ==
    \E c \in DOMAIN frames :
        /\ CallAt(c, "walk")
        /\ ~WalkContinues(frames[c])
        /\ Steps(c, OnTrailing(frames[c], instance))

MergeStep ==
    \E c \in DOMAIN frames :
        /\ CallAt(c, "merge")
        /\ MergeContinues(frames[c])
        /\ Steps(c, OnMerge(frames[c], instance))

MergeReturn ==
    \E c \in DOMAIN frames :
        /\ CallAt(c, "merge")
        /\ ~MergeContinues(frames[c])
        /\ Steps(c, OnMergeReturn(frames[c], instance))

\* compare_text calls followed step by step: one call on any two strs, or
\* NumCalls calls at the same time on one instance.
CallsInit ==
    /\ mode = "calls"
    /\ pc = "call"
    /\ PredictIdle /\ ContractIdle /\ MergeIdle /\ FilesIdle
    /\ ServeIdle /\ TrainIdle
    /\ instance = LoadedInstance
    /\ \/ \E in \in StepStrings \X StepStrings :
             frames = <<NewFrame(in[1], in[2])>>
       \/ \E ins \in [1..NumCalls -> SharedInputs] :
             frames = [c \in 1..NumCalls |-> NewFrame(ins[c][1], ins[c][2])]

CallsNext ==
    \/ CallStart
    \/ DpFillStep
    \/ BacktrackStep
    \/ LcsReturn
    \/ GapWalkStep
    \/ TrailingStep
    \/ MergeStep
    \/ MergeReturn

\* A call that can take a step is not left waiting for ever.
CallsSpec == CallsInit /\ [][CallsNext]_vars /\ WF_vars(CallsNext)

\* A POST to /correct, lines 39-68.
Correct ==
    /\ mode = "serve"
    /\ pc = "call"
    /\ \E outcome \in CorrectTextOutcomes :
          /\ modelCalls' = Handled(request, outcome).calls
          /\ response' = Handled(request, outcome).response
    /\ pc' = "responded"
    /\ UNCHANGED <<mode, request>>
    /\ UNCHANGED <<predictVars, contractVars, mergeVars, filesVars, callVars, trainVars>>

\* One pass of the loop of Trainer.train, lines 103-123.
TrainEpoch ==
    /\ mode = "train"
    /\ epoch < epochs
    /\ \E val_loss \in Losses :
          LET best == IF Improves(val_loss, best_val_loss)
                      THEN val_loss ELSE best_val_loss
          IN /\ val_losses' = Append(val_losses, val_loss)
             /\ best_val_loss' = best
             /\ best_val_losses' = Append(best_val_losses, best)
             /\ best_model' = IF Improves(val_loss, best_val_loss)
                              THEN epoch + 1 ELSE best_model
             /\ last_model' = epoch + 1
    /\ epoch' = epoch + 1
    /\ UNCHANGED <<mode, pc, epochs>>
    /\ UNCHANGED <<predictVars, contractVars, mergeVars, filesVars, callVars, serveVars>>

Next ==
    \/ Correct
    \/ TrainEpoch
    \/ GetLcsWithIndices
    \/ CompareText
    \/ PrintDifferences
    \/ CompareTexts
    \/ MergeDifferences
    \/ CompareFiles

Spec == Init /\ [][Next]_vars

----------------------------------------------------------------------------
\* Vocabulary of the properties.

\* compare_text has returned.
Compared == mode = "predict" /\ pc # "call"

\* _get_lcs_with_indices has returned.
Aligned == mode = "align" /\ pc = "aligned"

\* compare_texts has returned.
Reported == mode = "contract" /\ pc = "reported"

RangeFields == {"start_original", "end_original", "start_corrected", "end_corrected"}

RecordFields == {"type", "original", "corrected"} \cup RangeFields

\* Every record carries a kind, both excerpts and both ranges.
Uniform(ds) == \A k \in 1..Len(ds) : RecordFields \subseteq DOMAIN ds[k]

RECURSIVE Concat(_)
Concat(ss) == IF ss = <<>> THEN <<>> ELSE Head(ss) \o Concat(Tail(ss))

\* The corrected contents of the Insert / Replace records placed at original
\* position p, in list order.
InsertedAt(ds, p) ==
    Concat([k \in 1..Len(ds) |->
              IF ds[k].type \in {TypeInsert, TypeReplace} /\ ds[k].start_original = p
              THEN ds[k].corrected ELSE <<>>])

\* Original position p lies inside a Delete / Replace record's original range.
Dropped(ds, p) ==
    \E k \in 1..Len(ds) :
        /\ ds[k].type \in {TypeDelete, TypeReplace}
        /\ ds[k].start_original <= p
        /\ p < ds[k].end_original

\* Replaying ds against orig from original position p on.
RECURSIVE ReplayFrom(_, _, _)
ReplayFrom(orig, ds, p) ==
    IF p > Len(orig) THEN <<>>
    ELSE InsertedAt(ds, p)
         \o (IF p < Len(orig) /\ ~Dropped(ds, p) THEN <<At(orig, p)>> ELSE <<>>)
         \o ReplayFrom(orig, ds, p + 1)

Replay(orig, ds) == ReplayFrom(orig, ds, 0)

\* t is a subsequence of s.
RECURSIVE IsSubseq(_, _)
IsSubseq(t, s) ==
    IF t = <<>> THEN TRUE
    ELSE IF s = <<>> THEN FALSE
    ELSE IF Head(t) = Head(s) THEN IsSubseq(Tail(t), Tail(s))
    ELSE IsSubseq(t, Tail(s))

\* The elements of s at the positions in I, in order.
RECURSIVE Pick(_, _, _)
Pick(s, I, p) ==
    IF p > Len(s) THEN <<>>
    ELSE (IF p \in I THEN <<s[p]>> ELSE <<>>) \o Pick(s, I, p + 1)

\* The lengths of the common subsequences of s1 and s2.
CommonLengths(s1, s2) ==
    {Cardinality(I) : I \in {J \in SUBSET (1..Len(s1)) : IsSubseq(Pick(s1, J, 1), s2)}}

----------------------------------------------------------------------------
\* C1. Reconstruction law: for every pair of strings, replaying the records
\* compare_text returns against original (keep the characters outside every
\* record's original range, drop those inside a Delete / Replace range, put an
\* Insert / Replace record's corrected content at its position) yields
\* corrected.
C1_Reconstruction ==
    Compared =>
        /\ Uniform(result.differences)
        /\ Replay(original, result.differences) = corrected

\* C2. The alignment _get_lcs_with_indices returns is valid: the index lists
\* have equal length, both are strictly increasing and in range, and
\* s1[indices_s1[k]] = s2[indices_s2[k]] = lcs[k] for every k.
C2_AlignmentValid ==
    Aligned =>
        LET i1 == alignment.original
            i2 == alignment.corrected
        IN /\ Len(i1) = Len(i2)
           /\ Len(i1) = Len(alignment.lcs)
           /\ \A k \in 1..Len(i1) :
                 /\ 0 <= i1[k] /\ i1[k] < Len(original)
                 /\ 0 <= i2[k] /\ i2[k] < Len(corrected)
                 /\ At(original, i1[k]) = alignment.lcs[k]
                 /\ At(corrected, i2[k]) = alignment.lcs[k]
           /\ \A k \in 1..(Len(i1) - 1) : i1[k] < i1[k + 1] /\ i2[k] < i2[k + 1]

\* An alignment of two or more pairs that skips characters on both sides.
C2_Witness ==
    /\ Aligned
    /\ Len(alignment.lcs) >= 2
    /\ alignment.original # alignment.corrected
    /\ Len(original) > Len(alignment.lcs)
    /\ Len(corrected) > Len(alignment.lcs)

\* C3. The alignment is maximal: its number of matched pairs is the length of
\* a longest common subsequence of s1 and s2.
C3_AlignmentMaximal ==
    Aligned =>
        /\ Len(alignment.original) \in CommonLengths(original, corrected)
        /\ \A n \in CommonLengths(original, corrected) : n <= Len(alignment.original)

\* A walk that meets a tie dp[i-1][j] = dp[i][j-1] > 0 at its first cell.
C3_Witness ==
    /\ Aligned
    /\ Len(original) >= 2 /\ Len(corrected) >= 2
    /\ original[Len(original)] # corrected[Len(corrected)]
    /\ Len(alignment.lcs) >= 1
    /\ LET dp == DpTable(original, corrected)
       IN dp[Len(original) - 1][Len(corrected)] = dp[Len(original)][Len(corrected) - 1]

----------------------------------------------------------------------------
\* The gaps of the matched pairs, for the properties of the gap walk.

\* The matched pairs compare_text walks over.
Pairs == get_lcs_with_indices(original, corrected)

\* compare_text has returned from the gap walk (neither side empty, LCS not).
Walked == Compared /\ original # <<>> /\ corrected # <<>> /\ Pairs.lcs # <<>>

\* The gap before matched pair k of ps (k counted from 1) is
\* original[GapI(ps, k):ps.original[k]] and corrected[GapJ(ps, k):ps.corrected[k]].
GapI(ps, k) == IF k = 1 THEN 0 ELSE ps.original[k - 1] + 1
GapJ(ps, k) == IF k = 1 THEN 0 ELSE ps.corrected[k - 1] + 1

\* The matched pairs whose gap is non-empty on both sides.
BothSidedGaps(ps) ==
    {k \in 1..Len(ps.lcs) : GapI(ps, k) < ps.original[k] /\ GapJ(ps, k) < ps.corrected[k]}

\* The records lying in original[i0:i1] and corrected[j0:j1], in list order.
RecordsIn(ds, i0, i1, j0, j1) ==
    SelectSeq(ds, LAMBDA r :
        /\ i0 <= r.start_original /\ r.end_original <= i1
        /\ j0 <= r.start_corrected /\ r.end_corrected <= j1)

\* The first positions past the last matched pair.
TailI(ps) == ps.original[Len(ps.lcs)] + 1
TailJ(ps) == ps.corrected[Len(ps.lcs)] + 1

\* Characters remain on both sides after the last matched pair.
BothSidedTail(ps) == TailI(ps) < Len(original) /\ TailJ(ps) < Len(corrected)

IsExampleC == original = ExampleOriginal /\ corrected = ExampleCorrected

\* C4, as claimed: a gap before a matched pair that is non-empty on both
\* sides yields exactly one Replace record spanning both gaps, never a Delete
\* record plus an Insert record.
C4_SingleReplace ==
    Walked =>
        LET ps == Pairs IN
        \A k \in BothSidedGaps(ps) :
            RecordsIn(result.differences,
                      GapI(ps, k), ps.original[k], GapJ(ps, k), ps.corrected[k])
            = <<[type |-> TypeReplace,
                 original |-> Slice(original, GapI(ps, k), ps.original[k]),
                 corrected |-> Slice(corrected, GapJ(ps, k), ps.corrected[k]),
                 start_original |-> GapI(ps, k),
                 end_original |-> ps.original[k],
                 start_corrected |-> GapJ(ps, k),
                 end_corrected |-> ps.corrected[k]]>>

\* C4, amended: such a gap yields exactly two records, a Delete record for
\* original[i_prev:i] (its corrected range empty at j_prev) immediately
\* followed by an Insert record for corrected[j_prev:j] (its original range
\* empty at i), and no Replace record.
C4_DeleteThenInsert ==
    Walked =>
        LET ps == Pairs IN
        \A k \in BothSidedGaps(ps) :
            RecordsIn(result.differences,
                      GapI(ps, k), ps.original[k], GapJ(ps, k), ps.corrected[k])
            = <<[type |-> TypeDelete,
                 original |-> Slice(original, GapI(ps, k), ps.original[k]),
                 corrected |-> <<>>,
                 start_original |-> GapI(ps, k),
                 end_original |-> ps.original[k],
                 start_corrected |-> GapJ(ps, k),
                 end_corrected |-> GapJ(ps, k)],
                [type |-> TypeInsert,
                 original |-> <<>>,
                 corrected |-> Slice(corrected, GapJ(ps, k), ps.corrected[k]),
                 start_original |-> ps.original[k],
                 end_original |-> ps.original[k],
                 start_corrected |-> GapJ(ps, k),
                 end_corrected |-> ps.corrected[k]]>>

\* A both-sided gap before a matched pair that is not the first one.
C4_Witness ==
    /\ Walked
    /\ \E k \in BothSidedGaps(Pairs) : k > 1

\* C5, as claimed: characters remaining on both sides after the last matched
\* pair are flushed as one Replace record covering both remainders; for
\* Example C the only record is Replace over [3,5) and [3,5).
C5_TrailingReplace ==
    (Walked /\ BothSidedTail(Pairs)) =>
        LET ti == TailI(Pairs)
            tj == TailJ(Pairs)
        IN
        /\ RecordsIn(result.differences, ti, Len(original), tj, Len(corrected))
           = <<[type |-> TypeReplace,
                original |-> Slice(original, ti, Len(original)),
                corrected |-> Slice(corrected, tj, Len(corrected)),
                start_original |-> ti,
                end_original |-> Len(original),
                start_corrected |-> tj,
                end_corrected |-> Len(corrected)]>>
        /\ IsExampleC =>
              result.differences
              = <<[type |-> TypeReplace,
                   original |-> <<24352, 19977>>,
                   corrected |-> <<26446, 22235>>,
                   start_original |-> 3, end_original |-> 5,
                   start_corrected |-> 3, end_corrected |-> 5]>>

\* C5, amended: the trailing gap is flushed as a Delete record covering the
\* rest of original (its corrected range empty at the rest's start) followed
\* by an Insert record covering the rest of corrected (its original range
\* empty at the start of the original rest); for Example C the records are
\* Delete over [3,5) and [3,3), then Insert over [3,3) and [3,5).
C5_TrailingDeleteThenInsert ==
    (Walked /\ BothSidedTail(Pairs)) =>
        LET ti == TailI(Pairs)
            tj == TailJ(Pairs)
        IN
        /\ RecordsIn(result.differences, ti, Len(original), tj, Len(corrected))
           = <<[type |-> TypeDelete,
                original |-> Slice(original, ti, Len(original)),
                corrected |-> <<>>,
                start_original |-> ti,
                end_original |-> Len(original),
                start_corrected |-> tj,
                end_corrected |-> tj],
               [type |-> TypeInsert,
                original |-> <<>>,
                corrected |-> Slice(corrected, tj, Len(corrected)),
                start_original |-> ti,
                end_original |-> ti,
                start_corrected |-> tj,
                end_corrected |-> Len(corrected)]>>
        /\ IsExampleC =>
              result.differences
              = <<[type |-> TypeDelete,
                   original |-> <<24352, 19977>>,
                   corrected |-> <<>>,
                   start_original |-> 3, end_original |-> 5,
                   start_corrected |-> 3, end_corrected |-> 3],
                  [type |-> TypeInsert,
                   original |-> <<>>,
                   corrected |-> <<26446, 22235>>,
                   start_original |-> 3, end_original |-> 3,
                   start_corrected |-> 3, end_corrected |-> 5]>>

\* compare_text has returned for Example C.
C5_Witness == Walked /\ BothSidedTail(Pairs) /\ IsExampleC

----------------------------------------------------------------------------
\* The characters of a str.
Chars(str) == {str[k] : k \in 1..Len(str)}

\* C6. Disjoint inputs: two non-empty strings that share no character give
\* exactly one record, of kind Replace, whose original range is
\* [0, len(original)) with content original and whose corrected range is
\* [0, len(corrected)) with content corrected.
C6_DisjointReplace ==
    (/\ Compared
     /\ original # <<>>
     /\ corrected # <<>>
     /\ Chars(original) \cap Chars(corrected) = {}) =>
        result.differences
        = <<[type |-> TypeReplace,
             original |-> original,
             corrected |-> corrected,
             start_original |-> 0,
             end_original |-> Len(original),
             start_corrected |-> 0,
             end_corrected |-> Len(corrected)]>>

\* Two disjoint strings of different lengths, each of two characters or more.
C6_Witness ==
    /\ Compared
    /\ Len(original) >= 2
    /\ Len(corrected) >= 2
    /\ Len(original) # Len(corrected)
    /\ Chars(original) \cap Chars(corrected) = {}

\* The marks of the lines of a rendered stream.
Marks(stream) == {stream[k].mark : k \in 1..Len(stream)}

\* C7. Identity: whenever original == corrected (both empty included)
\* compare_text returns an empty differences list, and compare_texts on two
\* identical texts reports additions = deletions = changes = 0 with no line
\* marked as added or removed.
C7_Identity ==
    /\ (Compared /\ original = corrected) => result.differences = <<>>
    /\ (Reported /\ text1 = text2) =>
          /\ report.additions_count = 0
          /\ report.deletions_count = 0
          /\ report.changes_count = 0
          /\ Marks(report.original_content) \cap {"removed", "added"} = {}
          /\ Marks(report.new_content) \cap {"removed", "added"} = {}

\* compare_texts has returned for two identical texts of two lines or more.
C7_Witness ==
    /\ Reported
    /\ text1 = text2
    /\ Len(report.original_content) >= 2
    /\ Len(report.new_content) >= 2

\* The positions a..b-1.
Range(a, b) == a..(b - 1)

\* The sets in the family fam (a sequence of sets) are pairwise disjoint and
\* together make up 0..n-1.
Partitions(fam, n) ==
    /\ UNION {fam[k] : k \in 1..Len(fam)} = Range(0, n)
    /\ \A k, l \in 1..Len(fam) : k # l => fam[k] \cap fam[l] = {}

RECURSIVE Sum(_)
Sum(ns) == IF ns = <<>> THEN 0 ELSE Head(ns) + Sum(Tail(ns))

\* C8. Coverage: for every pair of strings, the original ranges of the
\* records together with the matched original positions partition
\* [0, len(original)), the corrected ranges together with the matched
\* corrected positions partition [0, len(corrected)), and the span lengths
\* of each side sum to the length of that side.
C8_Coverage ==
    Compared =>
        LET ds == result.differences
            matched == Pairs
            nm == Len(matched.lcs)
        IN /\ \A k \in 1..Len(ds) : RangeFields \subseteq DOMAIN ds[k]
           /\ Partitions(
                 [k \in 1..Len(ds) |-> Range(ds[k].start_original, ds[k].end_original)]
                 \o [k \in 1..nm |-> {matched.original[k]}],
                 Len(original))
           /\ Partitions(
                 [k \in 1..Len(ds) |-> Range(ds[k].start_corrected, ds[k].end_corrected)]
                 \o [k \in 1..nm |-> {matched.corrected[k]}],
                 Len(corrected))
           /\ Sum([k \in 1..Len(ds) |-> ds[k].end_original - ds[k].start_original])
                 + nm = Len(original)
           /\ Sum([k \in 1..Len(ds) |-> ds[k].end_corrected - ds[k].start_corrected])
                 + nm = Len(corrected)

\* C9. Every record compare_text returns, for every input pair, carries the
\* fields type, original, corrected, start_original, end_original,
\* start_corrected, end_corrected, so main, which reads record['original'] and
\* record['corrected'] of each record, never meets a missing field.
C9_RecordShape ==
    /\ Compared => Uniform(result.differences)
    /\ pc # "KeyError"

\* C10. Empty side: an empty original and a non-empty corrected give exactly
\* one record, of kind Insert, whose content is the whole of corrected over
\* [0, len(corrected)); an empty corrected and a non-empty original give
\* exactly one record, of kind Delete, covering the whole of original.
C10_EmptySide ==
    /\ (Compared /\ original = <<>> /\ corrected # <<>>) =>
          /\ Len(result.differences) = 1
          /\ result.differences[1].type = TypeInsert
          /\ result.differences[1].content = corrected
          /\ result.differences[1].start = 0
          /\ result.differences[1].end = Len(corrected)
    /\ (Compared /\ corrected = <<>> /\ original # <<>>) =>
          /\ Len(result.differences) = 1
          /\ result.differences[1].type = TypeDelete
          /\ result.differences[1].content = original
          /\ result.differences[1].start = 0
          /\ result.differences[1].end = Len(original)

\* compare_text has returned for an empty original and a corrected of two
\* characters or more.
C10_Witness ==
    /\ Compared
    /\ original = <<>>
    /\ Len(corrected) >= 2

\* _merge_differences has returned.
MergeReturned == mode = "merge" /\ pc = "merged"

\* C11. Merge idempotence: for every list of records, merging the merged
\* list again gives the merged list back unchanged.
C11_MergeIdempotent ==
    MergeReturned => merge_differences(mergeOutput) = mergeOutput

\* _merge_differences has returned two records or more, after merging at
\* least two records of its argument into one.
C11_Witness ==
    /\ MergeReturned
    /\ Len(mergeOutput) >= 2
    /\ Len(mergeOutput) < Len(mergeInput)

\* The three conditions of lines 199-201, on two neighbours of a list.
AdjacentMergeable(l) ==
    {k \in 1..(Len(l) - 1) :
        /\ l[k].type = l[k + 1].type
        /\ l[k].end_original = l[k + 1].start_original
        /\ l[k].end_corrected = l[k + 1].start_corrected}

\* C12. No adjacent mergeable records: no two neighbours of the list
\* _merge_differences returns have the same kind with the first ending, on
\* both sides, where the second starts; the same holds of the list
\* compare_text returns.
C12_NoAdjacentMergeable ==
    /\ MergeReturned => AdjacentMergeable(mergeOutput) = {}
    /\ (Compared /\ Len(result.differences) >= 2) =>
          AdjacentMergeable(result.differences) = {}

\* _merge_differences has returned two records from an argument of three
\* that had mergeable neighbours.
C12_Witness ==
    /\ MergeReturned
    /\ Len(mergeInput) = 3
    /\ Len(mergeOutput) = 2
    /\ AdjacentMergeable(mergeInput) # {}

\* The operations of the edit script of text1's and text2's lines.
EditScript == get_opcodes(splitlines(text1), splitlines(text2))

\* How many operations of the script carry the tag.
Tagged(tag) == Cardinality({k \in 1..Len(EditScript) : EditScript[k].tag = tag})

IsExampleA == text1 = ExampleAText1 /\ text2 = ExampleAText2

\* C13. Operation tallies: in the report of compare_texts the additions
\* count is the number of Insert operations of the edit script and the
\* deletions count is the number of Delete operations, whatever the number
\* of lines an operation spans.
C13_InsertDeleteTallies ==
    Reported =>
       /\ report.additions_count = Tagged("insert")
       /\ report.deletions_count = Tagged("delete")

\* C14. Replace tally: in the report of compare_texts the changes count is
\* the number of Replace operations of the edit script, whatever the number
\* of lines a Replace spans on either side; Example A gives additions 0,
\* deletions 0, changes 1.
C14_ReplaceTally ==
    /\ Reported => report.changes_count = Tagged("replace")
    /\ (Reported /\ IsExampleA) =>
          /\ report.additions_count = 0
          /\ report.deletions_count = 0
          /\ report.changes_count = 1

\* A stream without the placeholder that stands for an empty one.
StreamOf(content) == IF content = <<NoContent>> THEN <<>> ELSE content

\* A stream with its marks stripped.
Stripped(stream) == [k \in 1..Len(stream) |-> stream[k].line]

\* The operations whose original side, or new side, holds the k-th line.
OverOriginal(k) == {n \in 1..Len(EditScript) : EditScript[n].i1 < k /\ k <= EditScript[n].i2}
OverNew(k) == {n \in 1..Len(EditScript) : EditScript[n].j1 < k /\ k <= EditScript[n].j2}

FilesReturned == mode = "files" /\ pc = "returned"

Called(method) == \E k \in 1..Len(calls) : calls[k] = method

\* C18. Missing input is rejected before the engine runs: when
\* extract_text returned None for either file, compare_files returns None
\* without calling compare_texts or save_comparison_result and no report
\* file is written; compare_texts is only called with two defined texts.
C18_MissingInputRejected ==
    FilesReturned =>
       /\ (extracted[1] = None \/ extracted[2] = None) =>
             /\ returned = "None"
             /\ ~Called("compare_texts")
             /\ ~Called("save_comparison_result")
             /\ written = <<>>
       /\ Called("compare_texts") =>
             /\ extracted[1] # None
             /\ extracted[2] # None
             /\ text1 = extracted[1].text
             /\ text2 = extracted[2].text

\* compare_files has returned after extract_text gave a text with content
\* for the first file and None for the second.
C18_Witness ==
    /\ FilesReturned
    /\ extracted[1] # None
    /\ extracted[1].text # <<>>
    /\ extracted[2] = None

\* The calls followed step by step.
Calls == DOMAIN frames

\* C17. Totality: for every pair of strs, an empty one or two empty ones
\* included, no step of compare_text (DP fill, backtracking walk, gap walk,
\* merge scan) indexes out of range, and every call ends by returning a
\* result with original, corrected and differences.
C17_Totality ==
    /\ [](\A c \in Calls : frames[c].at # "raised")
    /\ <>(\A c \in Calls :
             /\ frames[c].at = "done"
             /\ DOMAIN frames[c].result = {"original", "corrected", "differences"}
             /\ frames[c].result.original = frames[c].original
             /\ frames[c].result.corrected = frames[c].corrected)

\* A call on two strs of three characters has returned after a DP fill, a
\* backtracking walk that found a common character, a gap walk and a merge
\* scan over two records or more.
C17_Witness ==
    \E c \in Calls :
        /\ frames[c].at = "done"
        /\ Len(frames[c].original) = 3
        /\ Len(frames[c].corrected) = 3
        /\ frames[c].lcs # <<>>
        /\ Len(frames[c].differences) >= 2
        /\ frames[c].next = Len(frames[c].differences)

\* C19. Independent comparisons: under every interleaving of the steps of
\* several compare_text calls on one instance, each call returns the result
\* it returns when run alone, and no call writes an attribute of the
\* instance.
C19_Independent ==
    /\ instance = LoadedInstance
    /\ \A c \in Calls :
          frames[c].at = "done" =>
             frames[c].result = compare_text(frames[c].original, frames[c].corrected)

\* One call has returned a record while another call on the same instance,
\* with other arguments, is in its gap walk and has appended a record.
C19_Witness ==
    \E c, d \in Calls :
        /\ c # d
        /\ frames[c].original # frames[d].original
        /\ frames[c].at = "done"
        /\ frames[c].result.differences # <<>>
        /\ frames[d].at = "walk"
        /\ frames[d].differences # <<>>

\* C20. Backtracking tie-break: at a cell (i, j) with i > 0, j > 0 whose
\* characters differ the walk moves to (i-1, j) only when
\* dp[i-1][j] > dp[i][j-1] and to (i, j-1) otherwise, ties included; at a
\* cell whose characters are equal it emits (i-1, j-1) and moves there; the
\* emitted pairs are reversed at the end; two calls on the same strs end
\* with the same alignment.
C20_TieBreak ==
    /\ [][\A c \in Calls :
            (frames[c].at = "backtrack" /\ frames'[c] # frames[c]) =>
               LET f == frames[c]
                   g == frames'[c]
               IN IF f.i > 0 /\ f.j > 0
                  THEN IF f.original[f.i] = f.corrected[f.j]
                       THEN /\ g.indices_s1 = Append(f.indices_s1, f.i - 1)
                            /\ g.indices_s2 = Append(f.indices_s2, f.j - 1)
                            /\ g.i = f.i - 1
                            /\ g.j = f.j - 1
                       ELSE /\ g.indices_s1 = f.indices_s1
                            /\ g.indices_s2 = f.indices_s2
                            /\ IF f.dp[f.i - 1][f.j] > f.dp[f.i][f.j - 1]
                               THEN g.i = f.i - 1 /\ g.j = f.j
                               ELSE g.i = f.i /\ g.j = f.j - 1
                  ELSE /\ g.indices_s1 = Reverse(f.indices_s1)
                       /\ g.indices_s2 = Reverse(f.indices_s2)
                       /\ g.lcs = Reverse(f.lcs)]_vars
    /\ [](\A c, d \in Calls :
             (/\ frames[c].original = frames[d].original
              /\ frames[c].corrected = frames[d].corrected
              /\ frames[c].at \in {"walk", "merge", "done"}
              /\ frames[d].at \in {"walk", "merge", "done"}) =>
                 /\ frames[c].indices_s1 = frames[d].indices_s1
                 /\ frames[c].indices_s2 = frames[d].indices_s2)

\* The walk of a call has just moved from the last cell (m, n) to (m, n-1)
\* on a tie between two non-zero cells.
C20_Witness ==
    \E c \in Calls :
        LET f == frames[c]
            m == Len(f.original)
            n == Len(f.corrected)
        IN /\ f.at = "backtrack"
           /\ f.lcs = <<>>
           /\ f.i = m
           /\ f.j = n - 1
           /\ f.j >= 1
           /\ f.original[m] # f.corrected[n]
           /\ f.dp[m - 1][n] = f.dp[m][n - 1]
           /\ f.dp[m][n] >= 1

\* The gaps of the walk over ps: gap k lies before matched pair k, and gap
\* Len(ps.lcs) + 1 after the last one.
Gaps(ps) == 1..(Len(ps.lcs) + 1)

GapEndI(ps, k) == IF k <= Len(ps.lcs) THEN ps.original[k] ELSE Len(original)
GapEndJ(ps, k) == IF k <= Len(ps.lcs) THEN ps.corrected[k] ELSE Len(corrected)

\* The records of the returned list lying in gap k.
GapOutput(ps, k) ==
    RecordsIn(result.differences,
              GapI(ps, k), GapEndI(ps, k), GapJ(ps, k), GapEndJ(ps, k))

OriginalOnlyGaps(ps) ==
    {k \in Gaps(ps) : GapI(ps, k) < GapEndI(ps, k) /\ GapJ(ps, k) = GapEndJ(ps, k)}

CorrectedOnlyGaps(ps) ==
    {k \in Gaps(ps) : GapI(ps, k) = GapEndI(ps, k) /\ GapJ(ps, k) < GapEndJ(ps, k)}

EmptyGaps(ps) ==
    {k \in Gaps(ps) : GapI(ps, k) = GapEndI(ps, k) /\ GapJ(ps, k) = GapEndJ(ps, k)}

\* C21. One-sided gaps: a gap, before a matched pair or after the last one,
\* that is non-empty on the original side only yields exactly one Delete
\* record and no Insert record; one that is non-empty on the corrected side
\* only yields exactly one Insert record and no Delete record; one that is
\* empty on both sides yields no record.
C21_OneSidedGaps ==
    Walked =>
        LET ps == Pairs IN
        /\ \A k \in OriginalOnlyGaps(ps) :
              /\ Len(GapOutput(ps, k)) = 1
              /\ GapOutput(ps, k)[1].type = TypeDelete
              /\ GapOutput(ps, k)[1].original
                    = Slice(original, GapI(ps, k), GapEndI(ps, k))
        /\ \A k \in CorrectedOnlyGaps(ps) :
              /\ Len(GapOutput(ps, k)) = 1
              /\ GapOutput(ps, k)[1].type = TypeInsert
              /\ GapOutput(ps, k)[1].corrected
                    = Slice(corrected, GapJ(ps, k), GapEndJ(ps, k))
        /\ \A k \in EmptyGaps(ps) : GapOutput(ps, k) = <<>>

\* compare_text has returned from a walk that met a gap of each of the
\* three kinds, one of them after the last matched pair.
C21_Witness ==
    /\ Walked
    /\ OriginalOnlyGaps(Pairs) # {}
    /\ CorrectedOnlyGaps(Pairs) # {}
    /\ EmptyGaps(Pairs) # {}
    /\ Len(Pairs.lcs) + 1 \notin EmptyGaps(Pairs)

\* The positions of l that open a run: the first, and every one whose left
\* neighbour does not satisfy the three conditions with it.
RunStarts(l) == {k \in 1..Len(l) : k = 1 \/ (k - 1) \notin AdjacentMergeable(l)}

\* The last position of the run that opens at a.
RunEnd(l, a) ==
    CHOOSE b \in a..Len(l) :
        /\ \A k \in a..(b - 1) : k \in AdjacentMergeable(l)
        /\ b = Len(l) \/ b \notin AdjacentMergeable(l)

\* The contents of field name over l[a..b], joined.
RECURSIVE Joined(_, _, _, _)
Joined(l, name, a, b) ==
    IF a > b THEN <<>> ELSE l[a][name] \o Joined(l, name, a + 1, b)

\* The n-th smallest element of a set of numbers.
RECURSIVE Nth(_, _)
Nth(set, n) ==
    LET least == CHOOSE x \in set : \A y \in set : x <= y
    IN IF n = 1 THEN least ELSE Nth(set \ {least}, n - 1)

\* C22. Merge rule: a record is merged into the running last record exactly
\* when the types match and last ends, on both sides, where the record
\* starts; the merged record keeps the type, runs from the first record's
\* starts to the last one's ends, and holds the concatenated contents; so
\* the contents joined over the whole list, and the order of the records,
\* are what they were.
C22_MergeRule ==
    MergeReturned =>
        /\ Len(mergeOutput) = Cardinality(RunStarts(mergeInput))
        /\ \A n \in 1..Len(mergeOutput) :
              LET a == Nth(RunStarts(mergeInput), n)
                  b == RunEnd(mergeInput, a)
              IN mergeOutput[n] =
                    [type |-> mergeInput[a].type,
                     original |-> Joined(mergeInput, "original", a, b),
                     corrected |-> Joined(mergeInput, "corrected", a, b),
                     start_original |-> mergeInput[a].start_original,
                     end_original |-> mergeInput[b].end_original,
                     start_corrected |-> mergeInput[a].start_corrected,
                     end_corrected |-> mergeInput[b].end_corrected]
        /\ Joined(mergeOutput, "original", 1, Len(mergeOutput))
              = Joined(mergeInput, "original", 1, Len(mergeInput))
        /\ Joined(mergeOutput, "corrected", 1, Len(mergeOutput))
              = Joined(mergeInput, "corrected", 1, Len(mergeInput))

\* _merge_differences has merged three records into one whose original
\* range is not empty.
C22_Witness ==
    /\ MergeReturned
    /\ Len(mergeInput) = 3
    /\ Len(mergeOutput) = 1
    /\ mergeOutput[1].start_original < mergeOutput[1].end_original

\* compare_text has returned for two strs that are both non-empty.
ComparedNonEmpty == Compared /\ original # <<>> /\ corrected # <<>>

\* C23. Ranges and contents agree: for two non-empty strs every returned
\* record has 0 <= start <= end <= length on both sides, its original
\* content is original[start_original:end_original] and its corrected
\* content is corrected[start_corrected:end_corrected]; an Insert record has
\* an empty original range and content, a Delete record an empty corrected
\* range and content.
C23_RangesMatchContents ==
    ComparedNonEmpty =>
        \A n \in 1..Len(result.differences) :
            LET r == result.differences[n] IN
            /\ 0 <= r.start_original
            /\ r.start_original <= r.end_original
            /\ r.end_original <= Len(original)
            /\ 0 <= r.start_corrected
            /\ r.start_corrected <= r.end_corrected
            /\ r.end_corrected <= Len(corrected)
            /\ r.original = Slice(original, r.start_original, r.end_original)
            /\ r.corrected = Slice(corrected, r.start_corrected, r.end_corrected)
            /\ r.type = TypeInsert =>
                  r.start_original = r.end_original /\ r.original = <<>>
            /\ r.type = TypeDelete =>
                  r.start_corrected = r.end_corrected /\ r.corrected = <<>>

\* compare_text has returned a Delete record that stops before the end of
\* original, and an Insert record.
C23_Witness ==
    /\ ComparedNonEmpty
    /\ \E n \in 1..Len(result.differences) :
          /\ result.differences[n].type = TypeDelete
          /\ result.differences[n].end_original < Len(original)
    /\ \E n \in 1..Len(result.differences) :
          result.differences[n].type = TypeInsert

\* The span skipped before record n of ds, and after the last record for
\* n = Len(ds) + 1: where it starts and ends on each side.
SkipFromI(ds, n) == IF n = 1 THEN 0 ELSE ds[n - 1].end_original
SkipFromJ(ds, n) == IF n = 1 THEN 0 ELSE ds[n - 1].end_corrected
SkipToI(ds, n) == IF n = Len(ds) + 1 THEN Len(original) ELSE ds[n].start_original
SkipToJ(ds, n) == IF n = Len(ds) + 1 THEN Len(corrected) ELSE ds[n].start_corrected

\* C24. Left-to-right order: for two non-empty strs, every record starts,
\* on both sides, no earlier than the record before it ends; the span
\* skipped between two records, before the first and after the last has the
\* same length on both sides and the same characters.
C24_LeftToRight ==
    ComparedNonEmpty =>
        LET ds == result.differences IN
        \A n \in 1..(Len(ds) + 1) :
            /\ SkipFromI(ds, n) <= SkipToI(ds, n)
            /\ SkipFromJ(ds, n) <= SkipToJ(ds, n)
            /\ SkipToI(ds, n) - SkipFromI(ds, n) = SkipToJ(ds, n) - SkipFromJ(ds, n)
            /\ Slice(original, SkipFromI(ds, n), SkipToI(ds, n))
                  = Slice(corrected, SkipFromJ(ds, n), SkipToJ(ds, n))

\* C25. Nothing left to merge: for two non-empty strs the list built by
\* the gap walk and the trailing flush has no two neighbours that
\* _merge_differences would merge, so the merge scan returns the same
\* records in the same order and the returned list is as long as the
\* unmerged one.
C25_WalkAlreadyMerged ==
    \A c \in Calls :
        (frames[c].at \in {"merge", "done"} /\ frames[c].lcs # <<>>) =>
            /\ AdjacentMergeable(frames[c].differences) = {}
            /\ frames[c].at = "done" =>
                  /\ frames[c].result.differences = frames[c].differences
                  /\ Len(frames[c].result.differences) = Len(frames[c].differences)

\* A call has returned after a merge scan over three records or more, two
\* of them of the same type.
C25_Witness ==
    \E c \in Calls :
        /\ frames[c].at = "done"
        /\ frames[c].lcs # <<>>
        /\ Len(frames[c].differences) >= 3
        /\ \E a, b \in 1..Len(frames[c].differences) :
              a # b /\ frames[c].differences[a].type = frames[c].differences[b].type

\* The /correct handler has returned.
Responded == mode = "serve" /\ pc = "responded"

\* The JSON body is an object with the key 'text'.
TextKey(data) == data.kind = "object" /\ data.has_text

\* C26. The /correct handler: a request whose JSON body is absent or has no
\* 'text' key gets a 400 response and no call is made on model; a request
\* with a 'text' key calls correct_text(text), then
\* compare_text(text, corrected_text), and returns the differences as
\* 'errors'; an exception on the way gives a 500 response.
C26_CorrectHandler ==
    Responded =>
        /\ (request.kind # "rejected" /\ ~TextKey(request)) =>
              /\ response.status = 400
              /\ modelCalls = <<>>
        /\ TextKey(request) =>
              /\ response.status \in {200, 500}
              /\ modelCalls # <<>>
              /\ modelCalls[1] = <<"correct_text", request.text>>
              /\ response.status = 200 =>
                    /\ Len(modelCalls) = 2
                    /\ modelCalls[2] = <<"compare_text", request.text,
                                         response.body.corrected_text>>
                    /\ response.body.errors
                          = compare_text(request.text,
                                         response.body.corrected_text).differences
        /\ response.status \in {200, 400, 500}

\* One epoch or more of Trainer.train has completed.
Trained == mode = "train" /\ epoch >= 1

\* The epochs run so far whose validation loss is the least one: no epoch
\* has a loss below it.
MinimumEpochs == {k \in 1..Len(val_losses) :
                    \A h \in 1..Len(val_losses) : ~Less(val_losses[h], val_losses[k])}

\* The epochs run so far whose validation loss is below float('inf'): a
\* number, neither inf nor nan.
NumberEpochs == {k \in 1..Len(val_losses) : Less(val_losses[k], Inf)}

\* Among the epochs of a set, those with the least validation loss.
LeastOf(epochSet) == {k \in epochSet : \A h \in epochSet : ~Less(val_losses[h], val_losses[k])}

\* The earliest epoch of a non-empty set.
Earliest(epochSet) == CHOOSE k \in epochSet : \A h \in epochSet : k <= h

\* best_val_loss, as recorded after each epoch, never increases.
NeverIncreases ==
    \A k \in 1..Len(best_val_losses) :
        ~Less(IF k = 1 THEN Inf ELSE best_val_losses[k - 1], best_val_losses[k])

\* C27 as stated. After every completed epoch of Trainer.train,
\* best_val_loss is the minimum validation loss of the epochs run so far,
\* best_model was last saved in the earliest epoch that attained it, and
\* last_model was saved in the most recent epoch; best_val_loss never
\* increases.
C27_BestIsMinimum ==
    Trained =>
        /\ \E k \in 1..Len(val_losses) : val_losses[k] = best_val_loss
        /\ \A k \in 1..Len(val_losses) : ~Less(val_losses[k], best_val_loss)
        /\ MinimumEpochs # {}
        /\ best_model = Earliest({k \in 1..Len(val_losses) : val_losses[k] = best_val_loss})
        /\ last_model = epoch
        /\ NeverIncreases

\* C27. After every completed epoch of Trainer.train: when some epoch run
\* so far had a validation loss below float('inf'), best_val_loss is the
\* least of those losses and best_model was last saved in the earliest
\* epoch that attained it; when none had, best_val_loss is still
\* float('inf') and best_model has never been saved. last_model was saved
\* in the most recent epoch, and best_val_loss never increases.
C27_BestIsMinimumOfNumbers ==
    Trained =>
        /\ Len(val_losses) = epoch
        /\ IF NumberEpochs = {}
              THEN best_val_loss = Inf /\ best_model = 0
              ELSE /\ best_val_loss = val_losses[Earliest(LeastOf(NumberEpochs))]
                   /\ best_model = Earliest(LeastOf(NumberEpochs))
        /\ last_model = epoch
        /\ NeverIncreases

\* A later epoch has repeated the least loss, and one after the best has a
\* higher one: best_model is still the one of the earlier epoch.
C27_Witness ==
    /\ Trained
    /\ \E a, b, c \in 1..epoch :
          /\ a < b
          /\ a < c
          /\ val_losses[a] = best_val_loss
          /\ val_losses[b] = best_val_loss
          /\ Less(best_val_loss, val_losses[c])
          /\ best_model = a

====
